---- MODULE Spec2Model ----
(***************************************************************************)
(* print_ip (source/print_ip.cpp): four function-template overloads that   *)
(* write an integral value, a string, a vector/list or a tuple to standard *)
(* output in dotted notation, and the main that calls them eight times.    *)
(*                                                                         *)
(* The program is modelled statement by statement: pc is the position in   *)
(* the source (the label "i38" is line 38 of the integral overload), out   *)
(* is the character stream written to std::cout.  Overload resolution and  *)
(* the static assertion happen in the Build step, before anything runs.    *)
(*                                                                         *)
(* Integers wider than TLC's own are held as little-endian sequences of    *)
(* limbs: one 8-bit limb for a 1-byte type, 16-bit limbs otherwise.  The   *)
(* top limb of a signed value carries the sign.                            *)
(***************************************************************************)
EXTENDS Integers, Sequences, FiniteSets, TLC

VARIABLES
    prog,       \* the calls of main, in source order: records [type, val]
    n,          \* index in prog of the current (or next) call
    pc,         \* position in the source
    out,        \* std::cout so far, a sequence of characters
    called,     \* template names of the arguments of the calls begun so far
    size_T,     \* integral overload: size_t size_T
    u_value,    \* integral overload: uT u_value (limbs)
    i,          \* integral overload: loop counter
    h,          \* integral overload: uint8_t h, then uint8_t l
    it,         \* container overload: it (position 1..size+1; size+1 is end())
    back_it,    \* container overload: back_it
    index,      \* print_tuple: position in the fold expression
    oob,        \* an element outside the container has been read
    exit_code   \* <<>> while running, <<c>> once main has returned c

vars == <<prog, n, pc, out, called, size_T, u_value, i, h, it, back_it, index,
          oob, exit_code>>

locals == <<size_T, u_value, i, h, it, back_it, index>>

-----------------------------------------------------------------------------
(* Bounds of the generated inputs.                                         *)

MaxLen == 3       \* longest generated vector / list
MaxArity == 3     \* largest generated tuple
MaxStrLen == 3    \* longest generated string

-----------------------------------------------------------------------------
(* Types.  A type is a template name with its argument list; is_same is    *)
(* equality of these descriptors.                                          *)

Ty(name) == [tmpl |-> name, args |-> <<>>]

Tmpl(name, a) == [tmpl |-> name, args |-> a]

\* std::string is std::basic_string<char>
StdString == Tmpl("basic_string", <<"char">>)

\* std::vector<E> and std::list<E>: the allocator defaults to std::allocator<E>
StdVector(E) == Tmpl("vector", <<E, "allocator">>)

StdList(E) == Tmpl("list", <<E, "allocator">>)

StdTuple(types) == Tmpl("tuple", types)

\* sizeof and signedness of the integral types the model generates
IntInfo ==
    [t \in {"bool", "int8_t", "uint8_t", "int16_t", "uint16_t",
            "int32_t", "uint32_t", "int64_t", "uint64_t"} |->
        CASE t = "bool"     -> [w |-> 1, signed |-> FALSE]
          [] t = "int8_t"   -> [w |-> 1, signed |-> TRUE]
          [] t = "uint8_t"  -> [w |-> 1, signed |-> FALSE]
          [] t = "int16_t"  -> [w |-> 2, signed |-> TRUE]
          [] t = "uint16_t" -> [w |-> 2, signed |-> FALSE]
          [] t = "int32_t"  -> [w |-> 4, signed |-> TRUE]
          [] t = "uint32_t" -> [w |-> 4, signed |-> FALSE]
          [] t = "int64_t"  -> [w |-> 8, signed |-> TRUE]
          [] t = "uint64_t" -> [w |-> 8, signed |-> FALSE]]

\* std::is_integral<T>::value
is_integral(T) == T.args = <<>> /\ T.tmpl \in DOMAIN IntInfo

sizeof(T) == IntInfo[T.tmpl].w

\* bits per limb and number of limbs of a w-byte integer
LimbBits(w) == IF w = 1 THEN 8 ELSE 16

NumLimbs(w) == IF w = 1 THEN 1 ELSE w \div 2

\* T has a member typedef value_type
HasValueType(T) == T.tmpl \in {"basic_string", "vector", "list", "deque"}

value_type(T) == T.args[1]

-----------------------------------------------------------------------------
(* Enabling conditions of the four overloads, and what the build makes of  *)
(* a call.                                                                 *)

\* line 21: enable_if<is_integral<T>::value>
EnableIntegral(T) == is_integral(T)

\* line 54: enable_if<is_same<T, std::string>::value>
EnableString(T) == T = StdString

\* A condition a slip would write: any type with a value_type is a container.
EnableContainerAnyValueType(T) == HasValueType(T)

\* lines 66-70: substitution fails when T has no value_type; otherwise T must
\* be exactly vector<value_type> or list<value_type>
EnableContainer(T) ==
    /\ HasValueType(T)
    /\ \/ T = StdVector(value_type(T))
       \/ T = StdList(value_type(T))

\* lines 89-97: only the std::tuple<Types...> specialization is true
is_tuple(T) == T.tmpl = "tuple"

\* line 158
EnableTuple(T) == is_tuple(T)

Overloads == {"integral", "string", "container", "tuple"}

EnabledOverloads(T) ==
    {o \in Overloads :
        CASE o = "integral"  -> EnableIntegral(T)
          [] o = "string"    -> EnableString(T)
          [] o = "container" -> EnableContainer(T)
          [] o = "tuple"     -> EnableTuple(T)}

\* A trait a slip would write: compare the first two types only.
is_same_type_FirstTwo(T) ==
    CASE Len(T.args) = 0 -> "incomplete"
      [] Len(T.args) = 1 -> "true_type"
      [] OTHER -> IF T.args[1] = T.args[2] THEN "true_type" ELSE "false_type"

\* lines 103-132.  The primary template is declared and never defined;
\* <Type> is true; <Type, Type, Types...> is the more specialized match and
\* recurses on <Type, Types...>; <Type, EnotherType, Types...> is false.
RECURSIVE is_same_type(_)
is_same_type(T) ==
    CASE Len(T.args) = 0 -> "incomplete"
      [] Len(T.args) = 1 -> "true_type"
      [] OTHER ->
           IF T.args[1] = T.args[2]
           THEN is_same_type(StdTuple(Tail(T.args)))
           ELSE "false_type"

\* What the compiler makes of print_ip(x) with x of type T: the overload it
\* instantiates, or the reason the build fails.
Resolve(T) ==
    LET en == EnabledOverloads(T) IN
    IF en = {} THEN "no_matching_function"
    ELSE IF Cardinality(en) > 1 THEN "ambiguous"
    ELSE LET o == CHOOSE x \in en : TRUE IN
         CASE o = "integral" ->
                \* line 26: make_unsigned<bool> is ill-formed
                IF T.tmpl = "bool" THEN "make_unsigned_error" ELSE o
           [] o = "tuple" ->
                \* line 161
                IF is_same_type(T) = "true_type" THEN o
                ELSE "static_assert_failed"
           [] OTHER -> o

Compiles(T) == Resolve(T) \in Overloads

-----------------------------------------------------------------------------
(* Arithmetic and formatting.                                              *)

RECURSIVE Pow2(_)
Pow2(k) == IF k = 0 THEN 1 ELSE 2 * Pow2(k - 1)

\* A conversion a slip would leave out: the signed value used as it is.
MakeUnsignedMissing(val, w) == val

\* A conversion a slip would write: the magnitude instead of the bit pattern.
MakeUnsignedAbs(val, w) ==
    [j \in 1..Len(val) |-> IF val[j] < 0 THEN -val[j] ELSE val[j]]

\* line 28: static_cast<uT>(value), the value modulo 2^(8w).  Only the top
\* limb of a signed value can be out of range.
MakeUnsigned(val, w) ==
    [j \in 1..Len(val) |-> val[j] % Pow2(LimbBits(w))]

\* A loop start a slip would write: one group too many.
LoopStartFull(size) == size

\* line 36: size_t i = size_T - 1
LoopStart(size) == size - 1

\* line 36: i--
LoopStep(k) == k - 1

\* line 38: u >> k on an unsigned value of w bytes
ShiftRight(u, k, w) ==
    LET b == LimbBits(w)
        q == k \div b
        r == k % b
    IN [j \in 1..Len(u) |->
          (IF j + q <= Len(u) THEN u[j + q] \div Pow2(r) ELSE 0)
          + (IF j + q + 1 <= Len(u)
             THEN (u[j + q + 1] % Pow2(r)) * Pow2(b - r)
             ELSE 0)]

\* static_cast<uint8_t>(u) of an unsigned limb value
CastU8(u) == u[1] % 256

\* static_cast<std::uint16_t>(x) of an 8-bit value
CastU16(x) == x % 65536

Digit(d) == <<"0", "1", "2", "3", "4", "5", "6", "7", "8", "9">>[d + 1]

RECURSIVE ToDecNat(_)
ToDecNat(m) ==
    IF m < 10 THEN <<Digit(m)>>
    ELSE ToDecNat(m \div 10) \o <<Digit(m % 10)>>

\* operator<< of an integer: decimal digits, '-' first when negative
ToDec(m) == IF m < 0 THEN <<"-">> \o ToDecNat(-m) ELSE ToDecNat(m)

\* The container rule applied to a string: '.' between its characters.
RECURSIVE StringCharsDotted(_)
StringCharsDotted(s) ==
    IF Len(s) <= 1 THEN s
    ELSE <<Head(s), ".">> \o StringCharsDotted(Tail(s))

\* operator<< of a std::string: its characters, as they are
StringChars(s) == s

\* A line end a slip would leave out.
EndlMissing == <<>>

\* std::endl
Endl == <<"\n">>

\* A separator a slip would write: '.' before every element.
TupleSepAlways(k) == <<".">>

\* line 145: (index == 0 ? "" : ".")
TupleSep(k) == IF k = 0 THEN <<>> ELSE <<".">>

\* line 73: the value of end()--, the iterator before the decrement
PostDecrement(p) == p

-----------------------------------------------------------------------------
(* Inputs.                                                                 *)

SeqsUpTo(S, k) == UNION {[1..m -> S] : m \in 0..k}

Arg(T, v) == [type |-> T, val |-> v]

\* "Hello, World!"
HelloWorld == <<"H", "e", "l", "l", "o", ",", " ", "W", "o", "r", "l", "d", "!">>

\* lines 169-176.  2130706433 = 0x7F000001 and
\* 8875824491850138409 = 0x7B2D435965708329, as limbs, least significant first.
MainProgram ==
    << Arg(Ty("int8_t"), <<-1>>),
       Arg(Ty("int16_t"), <<0>>),
       Arg(Ty("int32_t"), <<1, 32512>>),
       Arg(Ty("int64_t"), <<33577, 25968, 17241, 31533>>),
       Arg(StdString, HelloWorld),
       Arg(StdVector("int"), <<100, 200, 300, 400>>),
       Arg(StdList("short"), <<400, 300, 200, 100>>),
       Arg(StdTuple(<<"int", "int", "int", "int">>), <<123, 456, 789, 0>>) >>

\* limbs below the top one: 0x0000, 0x0102, 0xFF00, 0xFFFF
LowLimbs == {0, 258, 65280, 65535}

TopLimbs(T) ==
    LET info == IntInfo[T.tmpl] IN
    IF info.w = 1
    THEN (IF info.signed THEN -128..127 ELSE 0..255)
    ELSE (IF info.signed THEN {-32768, -1, 0, 258, 32767}
          ELSE LowLimbs \cup {32768})

IntVals(T) ==
    LET k == NumLimbs(sizeof(T)) IN
    {v \in [1..k -> LowLimbs \cup TopLimbs(T)] :
        /\ v[k] \in TopLimbs(T)
        /\ \A j \in 1..(k - 1) : v[j] \in LowLimbs}

IntTypes == {Ty(t) : t \in DOMAIN IntInfo \ {"bool"}}

IntInputs ==
    UNION {{Arg(T, v) : v \in IntVals(T)} : T \in IntTypes} \cup
    {MainProgram[k] : k \in 1..4} \cup
    {Arg(Ty("bool"), <<1>>)}

Chars == {"H", ".", "1"}

StringInputs ==
    {Arg(StdString, s) : s \in SeqsUpTo(Chars, MaxStrLen)} \cup {MainProgram[5]}

ElemTypes == {"int", "short"}

ElemVals == {-7, 0, 400}

ContainerInputs ==
    {Arg(T, v) : T \in {StdVector(E) : E \in ElemTypes}
                       \cup {StdList(E) : E \in ElemTypes},
                 v \in SeqsUpTo(ElemVals, MaxLen)}
    \cup {MainProgram[6], MainProgram[7]}

TupleVals == {0, 123}

TupleInputs ==
    UNION {{Arg(StdTuple(ts), v) : v \in [1..Len(ts) -> TupleVals]} :
              ts \in SeqsUpTo(ElemTypes, MaxArity)}
    \cup {MainProgram[8]}

\* types none of the four overloads is written for
OtherTypes ==
    { Ty("float"), Ty("const_char_ptr"),
      Tmpl("pair", <<"int", "int">>),
      Tmpl("basic_string", <<"wchar_t">>),
      Tmpl("deque", <<"int", "allocator">>),
      Tmpl("vector", <<"int", "custom_allocator">>),
      Tmpl("list", <<"short", "custom_allocator">>) }

OtherInputs == {Arg(T, <<>>) : T \in OtherTypes}

\* what a read outside a container may yield
Garbage == {-1, 0}

-----------------------------------------------------------------------------
(* The program.                                                            *)

arg == prog[n]

T_ == arg.type

size == Len(arg.val)

NoLocals ==
    /\ size_T = 0 /\ u_value = <<>> /\ i = 0 /\ h = 0
    /\ it = 0 /\ back_it = 0 /\ index = 0

InitWith(p) ==
    /\ prog = p
    /\ n = 1
    /\ pc = "build"
    /\ out = <<>>
    /\ called = <<>>
    /\ NoLocals
    /\ oob = FALSE
    /\ exit_code = <<>>

\* one call of print_ip on a generated argument
Init ==
    \/ \E c \in IntInputs : InitWith(<<c>>)
    \/ \E c \in StringInputs : InitWith(<<c>>)
    \/ \E c \in ContainerInputs : InitWith(<<c>>)
    \/ \E c \in TupleInputs : InitWith(<<c>>)
    \/ \E c \in OtherInputs : InitWith(<<c>>)

\* the program as written
InitMain == InitWith(MainProgram)

-----------------------------------------------------------------------------
(* The build: every call of main must resolve to one overload and its      *)
(* instantiation must compile; otherwise there is no program to run.       *)

Build ==
    /\ pc = "build"
    /\ pc' = IF \A k \in 1..Len(prog) : Compiles(prog[k].type)
             THEN "main" ELSE "build_error"
    /\ UNCHANGED <<prog, n, out, called, locals, oob, exit_code>>

\* first statement of each overload
Entry(o) ==
    CASE o = "integral"  -> "i24"
      [] o = "string"    -> "s57a"
      [] o = "container" -> "c73"
      [] o = "tuple"     -> "t162"

\* lines 169-176: the next call of main
MainCall ==
    /\ pc = "main"
    /\ n <= Len(prog)
    /\ pc' = Entry(Resolve(T_))
    /\ called' = Append(called, T_.tmpl)
    /\ UNCHANGED <<prog, n, out, locals, oob, exit_code>>

\* the closing brace of an overload: back in main, after the call
Return ==
    /\ pc = "ret"
    /\ pc' = "main"
    /\ n' = n + 1
    /\ size_T' = 0 /\ u_value' = <<>> /\ i' = 0 /\ h' = 0
    /\ it' = 0 /\ back_it' = 0 /\ index' = 0
    /\ UNCHANGED <<prog, out, called, oob, exit_code>>

\* line 178: return 0
Exit ==
    /\ pc = "main"
    /\ n > Len(prog)
    /\ pc' = "exit"
    /\ exit_code' = <<0>>
    /\ UNCHANGED <<prog, n, out, called, locals, oob>>

-----------------------------------------------------------------------------
(* The integral overload, lines 20-46.                                     *)

\* line 24
I24 ==
    /\ pc = "i24"
    /\ size_T' = sizeof(T_)
    /\ pc' = "i28"
    /\ UNCHANGED <<prog, n, out, called, u_value, i, h, it, back_it, index,
                   oob, exit_code>>

\* lines 26-28
I28 ==
    /\ pc = "i28"
    /\ u_value' = MakeUnsigned(arg.val, size_T)
    /\ pc' = "i30"
    /\ UNCHANGED <<prog, n, out, called, size_T, i, h, it, back_it, index,
                   oob, exit_code>>

\* line 30
I30 ==
    /\ pc = "i30"
    /\ pc' = IF size_T = 1 THEN "i32a" ELSE "i36init"
    /\ UNCHANGED <<prog, n, out, called, locals, oob, exit_code>>

\* line 32: std::cout << static_cast<std::uint16_t>(u_value)
I32a ==
    /\ pc = "i32a"
    /\ out' = out \o ToDec(CastU16(u_value[1]))
    /\ pc' = "i32b"
    /\ UNCHANGED <<prog, n, called, locals, oob, exit_code>>

\* line 32: << std::endl
I32b ==
    /\ pc = "i32b"
    /\ out' = out \o Endl
    /\ pc' = "ret"
    /\ UNCHANGED <<prog, n, called, locals, oob, exit_code>>

\* line 36: size_t i = size_T-1
I36init ==
    /\ pc = "i36init"
    /\ i' = LoopStart(size_T)
    /\ pc' = "i36"
    /\ UNCHANGED <<prog, n, out, called, size_T, u_value, h, it, back_it,
                   index, oob, exit_code>>

\* line 36: i > 0
I36 ==
    /\ pc = "i36"
    /\ pc' = IF i > 0 THEN "i38" ELSE "i42"
    /\ UNCHANGED <<prog, n, out, called, locals, oob, exit_code>>

\* line 38
I38 ==
    /\ pc = "i38"
    /\ h' = CastU8(ShiftRight(ShiftRight(u_value, 0, size_T), 8 * i, size_T))
    /\ pc' = "i39a"
    /\ UNCHANGED <<prog, n, out, called, size_T, u_value, i, it, back_it,
                   index, oob, exit_code>>

\* line 39: std::cout << static_cast<std::uint16_t>(h)
I39a ==
    /\ pc = "i39a"
    /\ out' = out \o ToDec(CastU16(h))
    /\ pc' = "i39b"
    /\ UNCHANGED <<prog, n, called, locals, oob, exit_code>>

\* line 39: << "."
I39b ==
    /\ pc = "i39b"
    /\ out' = out \o <<".">>
    /\ pc' = "i36dec"
    /\ UNCHANGED <<prog, n, called, locals, oob, exit_code>>

\* line 36: i--
I36dec ==
    /\ pc = "i36dec"
    /\ i' = LoopStep(i)
    /\ pc' = "i36"
    /\ UNCHANGED <<prog, n, out, called, size_T, u_value, h, it, back_it,
                   index, oob, exit_code>>

\* line 42
I42 ==
    /\ pc = "i42"
    /\ h' = CastU8(u_value)
    /\ pc' = "i43a"
    /\ UNCHANGED <<prog, n, out, called, size_T, u_value, i, it, back_it,
                   index, oob, exit_code>>

\* line 43: std::cout << static_cast<std::uint16_t>(l)
I43a ==
    /\ pc = "i43a"
    /\ out' = out \o ToDec(CastU16(h))
    /\ pc' = "i43b"
    /\ UNCHANGED <<prog, n, called, locals, oob, exit_code>>

\* line 43: << std::endl
I43b ==
    /\ pc = "i43b"
    /\ out' = out \o Endl
    /\ pc' = "ret"
    /\ UNCHANGED <<prog, n, called, locals, oob, exit_code>>

-----------------------------------------------------------------------------
(* The string overload, lines 53-58.                                       *)

\* line 57: std::cout << value
S57a ==
    /\ pc = "s57a"
    /\ out' = out \o StringChars(arg.val)
    /\ pc' = "s57b"
    /\ UNCHANGED <<prog, n, called, locals, oob, exit_code>>

\* line 57: << std::endl
S57b ==
    /\ pc = "s57b"
    /\ out' = out \o Endl
    /\ pc' = "ret"
    /\ UNCHANGED <<prog, n, called, locals, oob, exit_code>>

-----------------------------------------------------------------------------
(* The container overload, lines 65-80.  Iterators are positions:          *)
(* begin() is 1 and end() is size + 1.                                     *)

\* line 73: auto back_it = container.end()--
C73 ==
    /\ pc = "c73"
    /\ back_it' = PostDecrement(size + 1)
    /\ pc' = "c75init"
    /\ UNCHANGED <<prog, n, out, called, size_T, u_value, i, h, it, index,
                   oob, exit_code>>

\* line 75: auto it = container.begin()
C75init ==
    /\ pc = "c75init"
    /\ it' = 1
    /\ pc' = "c75"
    /\ UNCHANGED <<prog, n, out, called, size_T, u_value, i, h, back_it,
                   index, oob, exit_code>>

\* line 75: it != back_it
C75 ==
    /\ pc = "c75"
    /\ pc' = IF it /= back_it THEN "c77a" ELSE "c79a"
    /\ UNCHANGED <<prog, n, out, called, locals, oob, exit_code>>

\* line 77: std::cout << *it
C77a ==
    /\ pc = "c77a"
    /\ it \in 1..size
    /\ out' = out \o ToDec(arg.val[it])
    /\ pc' = "c77b"
    /\ UNCHANGED <<prog, n, called, locals, oob, exit_code>>

\* line 77: << "."
C77b ==
    /\ pc = "c77b"
    /\ out' = out \o <<".">>
    /\ pc' = "c75inc"
    /\ UNCHANGED <<prog, n, called, locals, oob, exit_code>>

\* line 75: it++
C75inc ==
    /\ pc = "c75inc"
    /\ it' = it + 1
    /\ pc' = "c75"
    /\ UNCHANGED <<prog, n, out, called, size_T, u_value, i, h, back_it,
                   index, oob, exit_code>>

\* line 79: std::cout << container.back(), the container not empty
C79a ==
    /\ pc = "c79a"
    /\ size > 0
    /\ out' = out \o ToDec(arg.val[size])
    /\ pc' = "c79b"
    /\ UNCHANGED <<prog, n, called, locals, oob, exit_code>>

\* line 79 on an empty container: back() has no element to refer to.  The
\* behaviour is undefined; a build either faults on the read or reads
\* whatever lies there and writes it.
C79aEmpty ==
    /\ pc = "c79a"
    /\ size = 0
    /\ oob' = TRUE
    /\ \/ /\ pc' = "crashed"
          /\ out' = out
       \/ \E g \in Garbage :
            /\ out' = out \o ToDec(g)
            /\ pc' = "c79b"
    /\ UNCHANGED <<prog, n, called, locals, exit_code>>

\* line 79: << std::endl
C79b ==
    /\ pc = "c79b"
    /\ out' = out \o Endl
    /\ pc' = "ret"
    /\ UNCHANGED <<prog, n, called, locals, oob, exit_code>>

-----------------------------------------------------------------------------
(* The tuple overload and print_tuple, lines 141-163.  The fold expression *)
(* is one pair of writes per index, in index order.                        *)

\* line 162
T162 ==
    /\ pc = "t162"
    /\ index' = 0
    /\ pc' = "t145a"
    /\ UNCHANGED <<prog, n, out, called, size_T, u_value, i, h, it, back_it,
                   oob, exit_code>>

\* line 145: std::cout << (index == 0 ? "" : ".")
T145a ==
    /\ pc = "t145a"
    /\ out' = out \o TupleSep(index)
    /\ pc' = "t145b"
    /\ UNCHANGED <<prog, n, called, locals, oob, exit_code>>

\* line 145: << std::get<index>(t), then the next index of the pack
T145b ==
    /\ pc = "t145b"
    /\ out' = out \o ToDec(arg.val[index + 1])
    /\ index' = index + 1
    /\ pc' = IF index + 1 < size THEN "t145a" ELSE "t146"
    /\ UNCHANGED <<prog, n, called, size_T, u_value, i, h, it, back_it,
                   oob, exit_code>>

\* line 146
T146 ==
    /\ pc = "t146"
    /\ out' = out \o Endl
    /\ pc' = "ret"
    /\ UNCHANGED <<prog, n, called, locals, oob, exit_code>>

-----------------------------------------------------------------------------

\* every step a run of a program whose containers are not empty can take
NextRun ==
    \/ Build \/ MainCall \/ Return \/ Exit
    \/ I24 \/ I28 \/ I30 \/ I32a \/ I32b \/ I36init \/ I36 \/ I38 \/ I39a
    \/ I39b \/ I36dec \/ I42 \/ I43a \/ I43b
    \/ S57a \/ S57b
    \/ C73 \/ C75init \/ C75 \/ C77a \/ C77b \/ C75inc \/ C79a \/ C79b
    \/ T162 \/ T145a \/ T145b \/ T146

Next == NextRun \/ C79aEmpty

\* print_ip on any one generated argument
Spec == Init /\ [][Next]_vars

\* main as written.  The program is sequential: while a step is possible,
\* one is taken.
SpecMain == InitMain /\ [][NextRun]_vars /\ WF_vars(NextRun)

-----------------------------------------------------------------------------
(* What the claims are stated with.                                        *)

\* the one call of a program of Spec has returned and main has ended
Finished == pc = "exit"

A1 == prog[1]

RECURSIVE JoinDots(_)
JoinDots(parts) ==
    IF Len(parts) = 0 THEN <<>>
    ELSE IF Len(parts) = 1 THEN parts[1]
    ELSE parts[1] \o <<".">> \o JoinDots(Tail(parts))

\* the elements of a sequence of integers, each in decimal, joined by '.'
Dotted(vals) == JoinDots([k \in 1..Len(vals) |-> ToDec(vals[k])])

Count(c, s) == Cardinality({k \in 1..Len(s) : s[k] = c})

\* the two's-complement bit pattern of a value: a negative top limb t stands
\* for the limb t + 2^bits
BitPattern(val, w) ==
    [j \in 1..Len(val) |->
        IF val[j] < 0 THEN val[j] + (IF w = 1 THEN 256 ELSE 65536) ELSE val[j]]

\* byte number b (0 the least significant) of a bit pattern of w bytes
PatternByte(u, w, b) ==
    IF w = 1 THEN u[1]
    ELSE IF b % 2 = 1 THEN u[(b \div 2) + 1] \div 256
    ELSE u[(b \div 2) + 1] % 256

\* the w bytes of a bit pattern, most significant first
BytesMSB(u, w) == [k \in 1..w |-> PatternByte(u, w, w - k)]

\* the line a bit pattern of w bytes is to be written as
PatternLine(u, w) == Dotted(BytesMSB(u, w)) \o <<"\n">>

\* reading a line back: the text before the final newline, cut at each '.'
RECURSIVE SplitDots(_)
SplitDots(s) ==
    IF \A k \in 1..Len(s) : s[k] /= "."
    THEN <<s>>
    ELSE LET d == CHOOSE k \in 1..Len(s) :
                    s[k] = "." /\ \A m \in 1..(k - 1) : s[m] /= "."
         IN <<SubSeq(s, 1, d - 1)>> \o SplitDots(SubSeq(s, d + 1, Len(s)))

DigitValue(c) == CHOOSE d \in 0..9 : Digit(d) = c

RECURSIVE FromDec(_)
FromDec(s) ==
    IF Len(s) = 0 THEN 0
    ELSE 10 * FromDec(SubSeq(s, 1, Len(s) - 1)) + DigitValue(s[Len(s)])

\* the numbers of a written line, in the order written
LineGroups(line) ==
    LET parts == SplitDots(SubSeq(line, 1, Len(line) - 1))
    IN [k \in 1..Len(parts) |-> FromDec(parts[k])]

\* the bit pattern whose bytes, most significant first, are g
PatternOfBytes(g, w) ==
    IF w = 1 THEN <<g[1]>>
    ELSE [j \in 1..(w \div 2) |-> g[w - 2 * j + 1] * 256 + g[w - 2 * j + 2]]

IsSigned(T) == T.tmpl \in {"int8_t", "int16_t", "int32_t", "int64_t"}

IsUnsigned(T) == T.tmpl \in {"uint8_t", "uint16_t", "uint32_t", "uint64_t"}

WidthOf(T) ==
    CASE T.tmpl \in {"int8_t", "uint8_t"} -> 1
      [] T.tmpl \in {"int16_t", "uint16_t"} -> 2
      [] T.tmpl \in {"int32_t", "uint32_t"} -> 4
      [] T.tmpl \in {"int64_t", "uint64_t"} -> 8

IsSequence(T) == T.tmpl \in {"vector", "list"} /\ T.args[2] = "allocator"

AllSame(types) == \A a, b \in 1..Len(types) : types[a] = types[b]

-----------------------------------------------------------------------------
(* The claims.                                                             *)

\* C1: print_ip on a non-empty vector or list writes exactly one line: its
\* n elements in sequence order joined by '.', n - 1 separators, no element
\* written twice.
C1_SequenceJoined ==
    (Finished /\ IsSequence(A1.type) /\ Len(A1.val) >= 1) =>
        /\ out = Dotted(A1.val) \o <<"\n">>
        /\ Count(".", out) = Len(A1.val) - 1

\* C2: print_ip on an empty vector or list reads no element of it and
\* writes nothing; it ends in the error outcome, not in a fault and not in
\* a normal return.
C2_EmptyRejected ==
    (IsSequence(A1.type) /\ Len(A1.val) = 0) =>
        /\ ~oob
        /\ out = <<>>
        /\ pc \notin {"crashed", "ret", "exit"}

\* C3: a signed value of 2, 4 or 8 bytes is written as exactly w groups
\* joined by '.', group k being byte w-1-k of its two's-complement bit
\* pattern in decimal; int16 0 is "0.0", int32 2130706433 is "127.0.0.1",
\* int64 8875824491850138409 is "123.45.67.89.101.112.131.41".
C3_SignedBytesMSBFirst ==
    (Finished /\ IsSigned(A1.type) /\ WidthOf(A1.type) \in {2, 4, 8}) =>
        LET w == WidthOf(A1.type) IN
        /\ out = PatternLine(BitPattern(A1.val, w), w)
        /\ Len(LineGroups(out)) = w
        /\ Count(".", out) = w - 1
        /\ \A k \in 1..w : LineGroups(out)[k] \in 0..255
        /\ A1 = MainProgram[2] => out = <<"0", ".", "0", "\n">>
        /\ A1 = MainProgram[3] =>
              out = <<"1", "2", "7", ".", "0", ".", "0", ".", "1", "\n">>
        /\ A1 = MainProgram[4] =>
              out = <<"1", "2", "3", ".", "4", "5", ".", "6", "7", ".",
                      "8", "9", ".", "1", "0", "1", ".", "1", "1", "2", ".",
                      "1", "3", "1", ".", "4", "1", "\n">>

\* C3 witness: a negative 8-byte value has been written.
C3_Witness ==
    /\ Finished
    /\ A1.type = Ty("int64_t")
    /\ A1.val = <<65280, 258, 0, -32768>>
    /\ Len(LineGroups(out)) = 8

\* C4: a signed 8-bit value v is written as one decimal number without '.':
\* v if v >= 0, v + 256 otherwise; -1 is "255".
C4_Int8Unsigned ==
    (Finished /\ A1.type = Ty("int8_t")) =>
        LET v == A1.val[1] IN
        /\ out = ToDec(IF v >= 0 THEN v ELSE v + 256) \o <<"\n">>
        /\ Count(".", out) = 0
        /\ v = -1 => out = <<"2", "5", "5", "\n">>

\* C4 witness: int8 -1 has been written as 255.
C4_Witness ==
    /\ Finished
    /\ A1.type = Ty("int8_t")
    /\ A1.val = <<-1>>
    /\ out = <<"2", "5", "5", "\n">>

\* C5: a tuple of n >= 1 elements of one type is written as one line, the
\* elements in index order joined by '.', no '.' before the first or after
\* the last; (123,456,789,0) is "123.456.789.0".
C5_TupleJoined ==
    (Finished /\ A1.type.tmpl = "tuple") =>
        /\ out = Dotted(A1.val) \o <<"\n">>
        /\ Count(".", out) = Len(A1.val) - 1
        /\ Count("\n", out) = 1
        /\ A1 = MainProgram[8] =>
              out = <<"1", "2", "3", ".", "4", "5", "6", ".", "7", "8", "9",
                      ".", "0", "\n">>

\* C5 witness: a 1-tuple has been written, with no '.'.
C5_Witness ==
    /\ Finished
    /\ A1.type.tmpl = "tuple"
    /\ Len(A1.val) = 1
    /\ out = <<"1", "2", "3", "\n">>

\* C6: for a tuple type of n >= 1 element types is_same_type is true exactly
\* when all of them are the same type, a tuple with two differing element
\* types fails the build, and print_tuple runs only on tuples of one type.
C6_SameTypeTrait ==
    (A1.type.tmpl = "tuple" /\ Len(A1.type.args) >= 1) =>
        /\ (is_same_type(A1.type) = "true_type") <=> AllSame(A1.type.args)
        /\ pc /= "build" => ((pc = "build_error") <=> ~AllSame(A1.type.args))
        /\ pc \in {"t162", "t145a", "t145b", "t146"} => AllSame(A1.type.args)

\* C6 witness: the build has rejected a tuple <A, A, B>.
C6_Witness ==
    /\ pc = "build_error"
    /\ A1.type = StdTuple(<<"int", "int", "short">>)

\* the shape of a type, by the four shapes print_ip is written for
Shape(T) ==
    CASE T.args = <<>> /\ T.tmpl \in {"bool", "int8_t", "uint8_t", "int16_t",
             "uint16_t", "int32_t", "uint32_t", "int64_t", "uint64_t"}
           -> "integral"
      [] T.tmpl = "basic_string" /\ T.args = <<"char">> -> "string"
      [] T.tmpl \in {"vector", "list"} /\ T.args[2] = "allocator" -> "container"
      [] T.tmpl = "tuple" -> "tuple"
      [] OTHER -> "none"

\* the overload whose body a position of the source lies in
OverloadAt(p) ==
    CASE p \in {"i24", "i28", "i30", "i32a", "i32b", "i36init", "i36", "i38",
                "i39a", "i39b", "i36dec", "i42", "i43a", "i43b"} -> "integral"
      [] p \in {"s57a", "s57b"} -> "string"
      [] p \in {"c73", "c75init", "c75", "c77a", "c77b", "c75inc", "c79a",
                "c79b", "crashed"} -> "container"
      [] p \in {"t162", "t145a", "t145b", "t146"} -> "tuple"
      [] OTHER -> "none"

\* C7: the enabling conditions of the four overloads exclude each other: a
\* type of one of the four shapes enables that overload and no other, a type
\* of none of them enables none and does not build, and a value is only
\* ever inside the overload of its own shape.
C7_OneOverload ==
    LET T == A1.type IN
    /\ Cardinality(EnabledOverloads(T)) <= 1
    /\ Shape(T) /= "none" => EnabledOverloads(T) = {Shape(T)}
    /\ Shape(T) = "none" =>
          EnabledOverloads(T) = {} /\ pc \in {"build", "build_error"}
    /\ OverloadAt(pc) /= "none" => OverloadAt(pc) = Shape(T)
    /\ pc \notin {"build", "build_error"} => Resolve(T) = Shape(T)

\* C7 witness: a type with a value_type that is neither vector nor list
\* (a deque) has been refused by the build.
C7_Witness ==
    /\ pc = "build_error"
    /\ A1.type.tmpl = "deque"
    /\ Resolve(A1.type) = "no_matching_function"

\* C8: a string, empty or with '.' in it, is written as it is: the text
\* before the line terminator is the string, character for character.
C8_StringVerbatim ==
    (Finished /\ A1.type = StdString) =>
        /\ out = A1.val \o <<"\n">>
        /\ SubSeq(out, 1, Len(out) - 1) = A1.val
        /\ Len(out) = Len(A1.val) + 1

\* C8 witness: a string with a '.' in it has been written.
C8_Witness ==
    /\ Finished
    /\ A1.type = StdString
    /\ A1.val = <<"H", ".", "1">>
    /\ out = <<"H", ".", "1", "\n">>

\* the template names of the arguments of main's calls, in source order
MainOrder ==
    <<"int8_t", "int16_t", "int32_t", "int64_t", "basic_string", "vector",
      "list", "tuple">>

\* C9: a run of main ends with exit code 0 after the eight calls in source
\* order, each call having written exactly one newline-terminated line, so
\* that the output is eight lines; every loop of print_ip ends.
C9_MainTerminates ==
    /\ [](pc = "main" =>
            /\ Count("\n", out) = n - 1
            /\ n > 1 => out[Len(out)] = "\n"
            /\ called = SubSeq(MainOrder, 1, n - 1))
    /\ <>[](/\ pc = "exit"
            /\ exit_code = <<0>>
            /\ called = MainOrder
            /\ Count("\n", out) = 8
            /\ out[Len(out)] = "\n")

\* C9 witness: main has returned 0 with eight lines written.
C9_Witness ==
    /\ pc = "exit"
    /\ exit_code = <<0>>
    /\ n = 9
    /\ Count("\n", out) = 8

\* C10: the integral overload writes a line that depends on the width and
\* the bit pattern alone, the same for a signed value and for the unsigned
\* value with its bit pattern, and the line determines the bit pattern.
C10_BitPatternOnly ==
    (Finished /\ (IsSigned(A1.type) \/ IsUnsigned(A1.type))) =>
        LET w == WidthOf(A1.type) IN
        /\ out = PatternLine(BitPattern(A1.val, w), w)
        /\ PatternOfBytes(LineGroups(out), w) = BitPattern(A1.val, w)

\* C10 witness: a signed value with the sign bit set has been written as
\* the unsigned value of the same bit pattern is.
C10_Witness ==
    /\ Finished
    /\ A1.type = Ty("int32_t")
    /\ A1.val = <<65535, -1>>
    /\ out = PatternLine(<<65535, 65535>>, 4)
    /\ out = <<"2", "5", "5", ".", "2", "5", "5", ".", "2", "5", "5", ".",
               "2", "5", "5", "\n">>

====
